---- MODULE Spec2Model ----
(***************************************************************************)
(* Model of the quiz session engine of quiz_app.py: timed_input (a reader  *)
(* thread joined with a timeout), take_quiz (the per-question loop) and    *)
(* save_result (the cumulative log and the detail record).                 *)
(*                                                                         *)
(* Python values are represented as follows.                               *)
(*   - a line of input is a record [id, text, during, at_menu]: text is    *)
(*     the string (a sequence of one-character strings); the others are    *)
(*     history fields (the ordinal of the line on the input stream, the    *)
(*     number of the timed_input call that was in progress when it was     *)
(*     typed, 0 when none was, and whether it was typed while main_menu    *)
(*     was waiting for a choice after a take_quiz call).  None, where a    *)
(*     line is expected, is NoLine (id 0).                                 *)
(*   - the local `choice` of take_quiz is [bound, val, src]: bound is      *)
(*     FALSE until the first assignment (reading it then is Python's       *)
(*     UnboundLocalError); src is the id of the line it was parsed from.   *)
(*   - "selected": None of an answer record is NO_ANSWER (0); an accepted  *)
(*     selection is always >= 1.                                           *)
(***************************************************************************)
EXTENDS Integers, Sequences, FiniteSets, TLC

\* ---------------------------------------------------------------- bounds
MaxPool == 2        \* longest question pool drawn
MaxLines == 3       \* lines the operator types over a run
MaxSessions == 2    \* calls of take_quiz from one run of main_menu

\* ------------------------------------------------------ program constants
NumOptions == 4     \* add_question stores exactly four options per question

\* ----------------------------------------------------------- input sets
\* the stored questions pools are drawn from (a pool may repeat one), and the
\* lines the operator may type: not a number, a valid selection, out of range
Questions == { [question |-> "qA", answer_index |-> 0],
               [question |-> "qB", answer_index |-> 2] }
LineTexts == { <<"a">>, <<"3">>, <<"9">> }

NO_ANSWER == 0
NoLine == [id |-> 0, text |-> <<"N">>, during |-> 0, at_menu |-> FALSE]
Unbound == [bound |-> FALSE, val |-> 0, src |-> 0]

VARIABLES
    questions,      \* the pool handed to take_quiz (main_menu's `questions`)
    sessions,       \* number of take_quiz calls made so far
    pc,             \* position of the main thread
    num_questions,  \* take_quiz local (after line 57)
    quiz_qs,        \* take_quiz local: the sample
    i,              \* 1-based position in quiz_qs of the current question
    score,          \* take_quiz local
    answers,        \* take_quiz local: list of answer records
    prov,           \* history: for each answer record, how it was appended
    choice,         \* take_quiz local, possibly unbound
    user_input,     \* take_quiz local: what timed_input returned
    threads,        \* one entry per timed_input call: its reader thread
    stdin,          \* lines typed and not yet read
    typed,          \* number of lines typed so far
    result,         \* how the last take_quiz call ended
    handed,         \* what take_quiz passed to save_result
    log,            \* rows of quiz_results.csv (<<>> = file does not exist)
    details,        \* detail records written
    requested,      \* history: the count the caller asks for, where it is fixed in advance
    drawn,          \* history: the pool positions the last call drew, in draw order
    menu_choice     \* main_menu local `choice`: the line its own input() read last

vars == << questions, sessions, pc, num_questions, quiz_qs, i, score, answers,
           prov, choice, user_input, threads, stdin, typed, result, handed,
           log, details, requested, drawn, menu_choice >>

\* -------------------------------------------------------------- helpers
RECURSIVE SeqsUpTo(_, _)
SeqsUpTo(S, n) ==
    IF n = 0 THEN { <<>> }
    ELSE LET shorter == SeqsUpTo(S, n - 1)
         IN  shorter \cup { Append(s, x) : s \in { t \in shorter : Len(t) = n - 1 }, x \in S }

Pools == SeqsUpTo(Questions, MaxPool)

\* the values main_menu or another caller can pass as num_questions
RequestedCounts == [is_none : {TRUE}, val : {0}]
                   \cup [is_none : {FALSE}, val : (-1) .. (MaxPool + 1)]

\* int(str) on the strings used here: an optional sign followed by digits
DigitVal(c) ==
    CASE c = "0" -> 0 [] c = "1" -> 1 [] c = "2" -> 2 [] c = "3" -> 3
      [] c = "4" -> 4 [] c = "5" -> 5 [] c = "6" -> 6 [] c = "7" -> 7
      [] c = "8" -> 8 [] c = "9" -> 9 [] OTHER -> -1

RECURSIVE DigitsValue(_)
DigitsValue(t) ==
    IF t = <<>> THEN 0
    ELSE 10 * DigitsValue(SubSeq(t, 1, Len(t) - 1)) + DigitVal(t[Len(t)])

AllDigits(t) == t # <<>> /\ \A k \in 1 .. Len(t) : DigitVal(t[k]) >= 0

\* TRUE when int(text) raises ValueError
IntRaisesValueError(text) ==
    IF text # <<>> /\ text[1] \in {"-", "+"}
    THEN ~AllDigits(Tail(text))
    ELSE ~AllDigits(text)

IntOf(text) ==
    IF text # <<>> /\ text[1] = "-" THEN 0 - DigitsValue(Tail(text))
    ELSE IF text # <<>> /\ text[1] = "+" THEN DigitsValue(Tail(text))
    ELSE DigitsValue(text)

\* random.sample(questions, k): k distinct positions, in draw order
Samples(pool, k) ==
    { s \in [1 .. k -> 1 .. Len(pool)] : \A a, b \in 1 .. k : a # b => s[a] # s[b] }

\* ------------------------------------------------------------ the state
NoResult == [status |-> "none", exc |-> "", score |-> 0, total |-> 0]
HeaderRow == [kind |-> "header", score |-> 0, total |-> 0, percentage |-> 0]

\* the value of `requested` where the caller's count is not fixed in advance
NotFixed == [is_none |-> TRUE, val |-> 0]

Init ==
    /\ questions \in Pools
    /\ sessions = 0
    /\ pc = "menu"
    /\ num_questions = 0
    /\ quiz_qs = <<>>
    /\ i = 0
    /\ score = 0
    /\ answers = <<>>
    /\ prov = <<>>
    /\ choice = Unbound
    /\ user_input = NoLine
    /\ threads = <<>>
    /\ stdin = <<>>
    /\ typed = 0
    /\ result = NoResult
    /\ handed = <<>>
    /\ log = <<>>
    /\ details = <<>>
    /\ requested = NotFixed
    /\ drawn = <<>>
    /\ menu_choice = NoLine

\* the reader thread of the timed_input call in progress
cur == Len(threads)

\* the number of the timed_input call in progress, 0 when there is none
ActivePrompt == IF pc \in {"join", "is_alive"} THEN cur ELSE 0

\* the question being asked
q == quiz_qs[i]

Raised(e) == [status |-> "raised", exc |-> e, score |-> 0, total |-> 0]

\* main_menu catches nothing: an exception out of take_quiz ends the process,
\* and its daemon reader threads with it
ProcessAlive == result.status # "raised"

\* main_menu is back at line 219, waiting in input("Enter choice: "), after a
\* call of take_quiz has returned
AtEnterChoice == pc = "menu" /\ sessions > 0 /\ ProcessAlive

\* The main thread waits in t.join (line 25), is about to test t.is_alive
\* (line 27), or is outside take_quiz.  Between two such points it runs the
\* straight-line code of take_quiz on its own locals, which no reader thread
\* reads or writes; reader threads and the operator are scheduled at these
\* points only, which leaves out no outcome of a race between them and the
\* main thread.
MainAtSchedulingPoint == pc \in {"menu", "join", "is_alive"}

\* ------------------------------------------------------------ take_quiz
\* variant: the emptiness test is missing
IsEmptyPool_Never(pool) == FALSE

\* `not questions`
IsEmptyPool(pool) == pool = <<>>

\* variant: the requested count is ignored
EffectiveCount_AlwaysAll(pool, n) == Len(pool)

\* lines 56-57
EffectiveCount(pool, n) ==
    IF n.is_none \/ n.val > Len(pool) THEN Len(pool) ELSE n.val

\* lines 51-61: the call, the empty-pool return, the sample
TakeQuiz(n) ==
    /\ pc = "menu"
    /\ ProcessAlive
    /\ sessions' = sessions + 1
    /\ IF IsEmptyPool(questions)
       THEN /\ result' = [status |-> "returned_none", exc |-> "", score |-> 0, total |-> 0]
            /\ drawn' = <<>>
            /\ UNCHANGED << pc, num_questions, quiz_qs, i, score, answers, prov,
                            choice, user_input >>
       ELSE LET nq == EffectiveCount(questions, n) IN
            /\ num_questions' = nq
            /\ IF nq < 0
               THEN \* random.sample raises ValueError on a negative sample size
                    /\ result' = Raised("ValueError")
                    /\ drawn' = <<>>
                    /\ UNCHANGED << pc, quiz_qs, i, score, answers, prov, choice,
                                    user_input >>
               ELSE /\ \E s \in Samples(questions, nq) :
                          /\ quiz_qs' = [k \in 1 .. nq |-> questions[s[k]]]
                          /\ drawn' = s
                    /\ score' = 0
                    /\ answers' = <<>>
                    /\ prov' = <<>>
                    /\ choice' = Unbound
                    /\ user_input' = NoLine
                    /\ i' = 1
                    /\ pc' = IF nq = 0 THEN "save" ELSE "prompt"
                    /\ result' = [status |-> "running", exc |-> "", score |-> 0, total |-> 0]
    /\ UNCHANGED << questions, requested, menu_choice, threads, stdin, typed, handed, log, details >>

\* ---------------------------------------------------------- timed_input
\* get_input, line 20: input() holds the interpreter's lock on the input
\* stream while it reads; a thread that finds the lock taken waits for it
\* ("started"), the thread that holds it blocks in the read ("reading")
LockFree(ths) == \A o \in 1 .. Len(ths) : ths[o].state # "reading"

Waiting(ths) == { o \in 1 .. Len(ths) : ths[o].state = "started" }

\* A call that returned its line leaves nothing behind: its thread has ended
\* and nothing refers to its answer cell any more.  Its entry is cleared when
\* the next call starts; the entry of a call that returned None is kept, for
\* its thread lives on.
ReapedThread ==
    [state |-> "finished", answer |-> NoLine, returned |-> TRUE, ret |-> NoLine,
     notice |-> FALSE, alive_at_check |-> FALSE, qi |-> 0, session |-> 0]

Reap(ths) ==
    [o \in 1 .. Len(ths) |->
        IF ths[o].returned /\ ~ths[o].alive_at_check THEN ReapedThread ELSE ths[o]]

\* lines 17-24: a fresh answer cell and a started daemon thread
TimedInput_Start ==
    /\ pc = "prompt"
    /\ threads' = Append(Reap(threads),
                         [state |-> IF LockFree(threads) THEN "reading" ELSE "started",
                          answer |-> NoLine, returned |-> FALSE,
                          ret |-> NoLine, notice |-> FALSE, alive_at_check |-> FALSE,
                          qi |-> i, session |-> sessions])
    /\ pc' = "join"
    /\ UNCHANGED << questions, requested, drawn, menu_choice, sessions, num_questions, quiz_qs, i, score, answers,
                    prov, choice, user_input, stdin, typed, result, handed, log, details >>

\* get_input, line 20: the read returns the next line, the assignment stores
\* it in this call's own answer cell, and the thread ends; the lock it gives
\* up goes to one of the threads waiting for it
Reader_Read(r) ==
    /\ ProcessAlive
    /\ MainAtSchedulingPoint
    /\ threads[r].state = "reading"
    /\ stdin # <<>>
    /\ LET done == [threads EXCEPT ![r].state = "finished", ![r].answer = Head(stdin)]
       IN  IF Waiting(done) = {}
           THEN threads' = done
           ELSE \E w \in Waiting(done) : threads' = [done EXCEPT ![w].state = "reading"]
    /\ stdin' = Tail(stdin)
    /\ UNCHANGED << questions, requested, drawn, menu_choice, sessions, pc, num_questions, quiz_qs, i, score, answers,
                    prov, choice, user_input, typed, result, handed, log, details >>

\* the operator enters a line; lines are entered one at a time, the next one
\* after the previous one was read
Type(text) ==
    /\ ProcessAlive
    /\ MainAtSchedulingPoint
    /\ typed < MaxLines
    /\ stdin = <<>>
    /\ typed' = typed + 1
    /\ stdin' = Append(stdin, [id |-> typed + 1, text |-> text, during |-> ActivePrompt,
                                at_menu |-> AtEnterChoice])
    /\ UNCHANGED << questions, requested, drawn, menu_choice, sessions, pc, num_questions, quiz_qs, i, score, answers,
                    prov, choice, user_input, threads, result, handed, log, details >>

\* line 25: t.join(timeout) returns because the thread has ended
TimedInput_JoinFinished ==
    /\ pc = "join"
    /\ threads[cur].state = "finished"
    /\ pc' = "is_alive"
    /\ UNCHANGED << questions, requested, drawn, menu_choice, sessions, num_questions, quiz_qs, i, score, answers,
                    prov, choice, user_input, threads, stdin, typed, result, handed,
                    log, details >>

\* line 25: t.join(timeout) returns because the timeout has elapsed
TimedInput_JoinTimeout ==
    /\ pc = "join"
    /\ threads[cur].state # "finished"
    /\ pc' = "is_alive"
    /\ UNCHANGED << questions, requested, drawn, menu_choice, sessions, num_questions, quiz_qs, i, score, answers,
                    prov, choice, user_input, threads, stdin, typed, result, handed,
                    log, details >>

\* variant: the liveness test is inverted
TimedInputResult_Inverted(alive, cell) == IF ~alive THEN NoLine ELSE cell

\* variant: the answer cell is shared by all calls and returned on the timeout
\* path too, so a call that times out returns what an earlier reader left
TimedInputResult_Stale(alive, cell) ==
    LET left == { o \in 1 .. Len(threads) :
                    /\ threads[o].alive_at_check
                    /\ threads[o].state = "finished" }
    IN  IF ~alive THEN cell
        ELSE IF left = {} THEN NoLine
        ELSE threads[CHOOSE o \in left : \A o2 \in left : o2 <= o].answer

\* lines 27-30: what timed_input returns given t.is_alive()
TimedInputResult(alive, cell) == IF alive THEN NoLine ELSE cell

\* lines 27-30: the liveness check, the notice, the return
TimedInput_Return ==
    /\ pc = "is_alive"
    /\ LET alive == threads[cur].state # "finished"
           value == TimedInputResult(alive, threads[cur].answer)
       IN  /\ user_input' = value
           /\ threads' = [threads EXCEPT ![cur].returned = TRUE,
                                         ![cur].ret = value,
                                         ![cur].notice = alive,
                                         ![cur].alive_at_check = alive]
    /\ pc' = "response"
    /\ UNCHANGED << questions, requested, drawn, menu_choice, sessions, num_questions, quiz_qs, i, score, answers,
                    prov, choice, stdin, typed, result, handed, log, details >>

\* ------------------------------------------- take_quiz: the retry loop
\* variant: the upper end of the range test is missing
InRange_NoUpper(c) == 1 <= c

\* line 86: 1 <= choice <= len(q["options"])
InRange(c) == 1 <= c /\ c <= NumOptions

\* the answer record of the timeout branch, lines 76-81
TimeoutRecord(qu) ==
    [question |-> qu.question, selected |-> NO_ANSWER,
     correct |-> qu.answer_index + 1, is_correct |-> FALSE]

\* lines 72-82: timed_input returned None; a record is appended and the loop left
Response_Timeout ==
    /\ pc = "response"
    /\ user_input = NoLine
    /\ answers' = Append(answers, TimeoutRecord(q))
    /\ prov' = Append(prov, [qi |-> i, prompt |-> cur, timeout |-> TRUE,
                             line |-> 0, by |-> "timeout_branch"])
    /\ pc' = "score"
    /\ UNCHANGED << questions, requested, drawn, menu_choice, sessions, num_questions, quiz_qs, i, score, choice,
                    user_input, threads, stdin, typed, result, handed, log, details >>

\* lines 84-85, 90-91: int() raises ValueError; choice is not assigned
Response_NotANumber ==
    /\ pc = "response"
    /\ user_input # NoLine
    /\ IntRaisesValueError(user_input.text)
    /\ pc' = "prompt"
    /\ UNCHANGED << questions, requested, drawn, menu_choice, sessions, num_questions, quiz_qs, i, score, answers,
                    prov, choice, user_input, threads, stdin, typed, result, handed,
                    log, details >>

\* lines 84-89: choice is assigned, the range test fails, the loop goes round
Response_OutOfRange ==
    /\ pc = "response"
    /\ user_input # NoLine
    /\ ~IntRaisesValueError(user_input.text)
    /\ ~InRange(IntOf(user_input.text))
    /\ choice' = [bound |-> TRUE, val |-> IntOf(user_input.text), src |-> user_input.id]
    /\ pc' = "prompt"
    /\ UNCHANGED << questions, requested, drawn, menu_choice, sessions, num_questions, quiz_qs, i, score, answers,
                    prov, user_input, threads, stdin, typed, result, handed, log,
                    details >>

\* lines 84-87: choice is assigned, the range test passes, the loop is left
Response_Valid ==
    /\ pc = "response"
    /\ user_input # NoLine
    /\ ~IntRaisesValueError(user_input.text)
    /\ InRange(IntOf(user_input.text))
    /\ choice' = [bound |-> TRUE, val |-> IntOf(user_input.text), src |-> user_input.id]
    /\ pc' = "score"
    /\ UNCHANGED << questions, requested, drawn, menu_choice, sessions, num_questions, quiz_qs, i, score, answers,
                    prov, user_input, threads, stdin, typed, result, handed, log,
                    details >>

\* ------------------------------------- take_quiz: after the retry loop
\* lines 93-94
IsCorrect(c, qu) == c = qu.answer_index + 1

\* lines 96-101: the score after this question
ScoreAfter(sc, ui, is_correct) ==
    IF ui # NoLine /\ is_correct THEN sc + 1 ELSE sc

\* lines 103-108
ScoredRecord(qu, c, ui) ==
    [question |-> qu.question,
     selected |-> IF ui # NoLine THEN c ELSE NO_ANSWER,
     correct |-> qu.answer_index + 1,
     is_correct |-> IsCorrect(c, qu)]

\* lines 93-108, reached after either break of the loop; line 94 reads choice
ScoreQuestion ==
    /\ pc = "score"
    /\ IF ~choice.bound
       THEN \* line 94 raises UnboundLocalError: no assignment to choice was ever made
            /\ result' = Raised("UnboundLocalError")
            /\ pc' = "menu"
            /\ UNCHANGED << i, score, answers, prov >>
       ELSE /\ score' = ScoreAfter(score, user_input, IsCorrect(choice.val, q))
            /\ answers' = Append(answers, ScoredRecord(q, choice.val, user_input))
            /\ prov' = Append(prov, [qi |-> i, prompt |-> cur,
                                     timeout |-> (user_input = NoLine),
                                     line |-> choice.src, by |-> "after_loop"])
            /\ IF i < Len(quiz_qs)
               THEN i' = i + 1 /\ pc' = "prompt"
               ELSE i' = i /\ pc' = "save"
            /\ UNCHANGED result
    /\ UNCHANGED << questions, requested, drawn, menu_choice, sessions, num_questions, quiz_qs, choice, user_input,
                    threads, stdin, typed, handed, log, details >>

\* ---------------------------------------------------------- save_result
\* line 124: score/total*100 to two decimals, in hundredths
Percentage(sc, total) == (2 * sc * 10000 + total) \div (2 * total)

DataRow(sc, total) ==
    [kind |-> "data", score |-> sc, total |-> total, percentage |-> Percentage(sc, total)]

\* variant: the header is written on every call
LogAfter_HeaderEveryTime(rows, sc, total) ==
    rows \o << HeaderRow, DataRow(sc, total) >>

\* lines 117-124: the rows of the log after the summary write
LogAfter(rows, sc, total) ==
    (IF rows = <<>> THEN << HeaderRow >> ELSE rows) \o << DataRow(sc, total) >>

Outcome == [score |-> score, total |-> num_questions, answers |-> answers]

\* lines 110-112 and 116-133: both writes succeed, (score, num_questions) is returned
SaveResult_Ok ==
    /\ pc = "save"
    /\ num_questions # 0
    /\ handed' = Append(handed, Outcome)
    /\ log' = LogAfter(log, score, num_questions)
    /\ details' = Append(details, Outcome)
    /\ result' = [status |-> "returned", exc |-> "", score |-> score, total |-> num_questions]
    /\ pc' = "menu"
    /\ UNCHANGED << questions, requested, drawn, menu_choice, sessions, num_questions, quiz_qs, i, score, answers,
                    prov, choice, user_input, threads, stdin, typed >>

\* line 120: opening or writing the log raises OSError; nothing is written
SaveResult_SummaryFails ==
    /\ pc = "save"
    /\ num_questions # 0
    /\ handed' = Append(handed, Outcome)
    /\ result' = Raised("OSError")
    /\ pc' = "menu"
    /\ UNCHANGED << questions, requested, drawn, menu_choice, sessions, num_questions, quiz_qs, i, score, answers,
                    prov, choice, user_input, threads, stdin, typed, log, details >>

\* variant: the failure of the detail write is caught and the call goes on
SaveResult_DetailFails_Swallowed ==
    /\ pc = "save"
    /\ num_questions # 0
    /\ handed' = Append(handed, Outcome)
    /\ log' = LogAfter(log, score, num_questions)
    /\ result' = [status |-> "returned", exc |-> "", score |-> score, total |-> num_questions]
    /\ pc' = "menu"
    /\ UNCHANGED << questions, requested, drawn, menu_choice, sessions, num_questions, quiz_qs, i, score, answers,
                    prov, choice, user_input, threads, stdin, typed, details >>

\* line 127: the log row is written, then the detail write raises OSError
SaveResult_DetailFails ==
    /\ pc = "save"
    /\ num_questions # 0
    /\ handed' = Append(handed, Outcome)
    /\ log' = LogAfter(log, score, num_questions)
    /\ result' = Raised("OSError")
    /\ pc' = "menu"
    /\ UNCHANGED << questions, requested, drawn, menu_choice, sessions, num_questions, quiz_qs, i, score, answers,
                    prov, choice, user_input, threads, stdin, typed, details >>

\* line 124 with total = 0: the header (if any) is written, score/total raises
SaveResult_ZeroDivision ==
    /\ pc = "save"
    /\ num_questions = 0
    /\ handed' = Append(handed, Outcome)
    /\ log' = IF log = <<>> THEN << HeaderRow >> ELSE log
    /\ result' = Raised("ZeroDivisionError")
    /\ pc' = "menu"
    /\ UNCHANGED << questions, requested, drawn, menu_choice, sessions, num_questions, quiz_qs, i, score, answers,
                    prov, choice, user_input, threads, stdin, typed, details >>

\* line 133: save_result prints that the results were saved; the line is
\* reached exactly when save_result returns, and take_quiz then returns too
ReportedSaved == result.status = "returned"

\* line 112: the caller of take_quiz holds the pair (score, total) of `out`
CallerObtained(out) ==
    /\ result.status = "returned"
    /\ result.score = out.score
    /\ result.total = out.total

\* ------------------------------------------------------------ main_menu
\* line 219: main_menu's own input() returns the next line.  It reads on the
\* main thread and needs the same lock as the reader threads: it gets no line
\* while a reader thread left behind by timed_input holds the stream.  What
\* main_menu does with the choice (lines 221-270) is not followed further.
Menu_ReadChoice ==
    /\ AtEnterChoice
    /\ LockFree(threads)
    /\ stdin # <<>>
    /\ menu_choice' = Head(stdin)
    /\ stdin' = Tail(stdin)
    /\ pc' = "dispatch"
    /\ UNCHANGED << questions, requested, drawn, sessions, num_questions, quiz_qs, i, score,
                    answers, prov, choice, user_input, threads, typed, result, handed,
                    log, details >>

\* -------------------------------------------------------- specification
Next ==
    \/ \E n \in RequestedCounts : sessions = 0 /\ TakeQuiz(n)
    \/ TimedInput_Start
    \/ \E r \in 1 .. Len(threads) : Reader_Read(r)
    \/ \E text \in LineTexts : Type(text)
    \/ TimedInput_JoinFinished
    \/ TimedInput_JoinTimeout
    \/ TimedInput_Return
    \/ Response_Timeout
    \/ Response_NotANumber
    \/ Response_OutOfRange
    \/ Response_Valid
    \/ ScoreQuestion
    \/ SaveResult_Ok
    \/ SaveResult_SummaryFails
    \/ SaveResult_DetailFails
    \/ SaveResult_ZeroDivision
    \/ Menu_ReadChoice

\* one call of take_quiz, with any pool and any requested count
Spec == Init /\ [][Next]_vars

\* The same call with the requested count fixed in advance and kept in
\* `requested`, and an operator who enters valid selections only.
ValidTexts ==
    { t \in LineTexts : ~IntRaisesValueError(t) /\ InRange(IntOf(t)) }

InitCounts ==
    /\ questions \in Pools
    /\ sessions = 0
    /\ pc = "menu"
    /\ num_questions = 0
    /\ quiz_qs = <<>>
    /\ i = 0
    /\ score = 0
    /\ answers = <<>>
    /\ prov = <<>>
    /\ choice = Unbound
    /\ user_input = NoLine
    /\ threads = <<>>
    /\ stdin = <<>>
    /\ typed = 0
    /\ result = NoResult
    /\ handed = <<>>
    /\ log = <<>>
    /\ details = <<>>
    /\ requested \in RequestedCounts
    /\ drawn = <<>>
    /\ menu_choice = NoLine

NextCounts ==
    \/ sessions = 0 /\ TakeQuiz(requested)
    \/ TimedInput_Start
    \/ \E r \in 1 .. Len(threads) : Reader_Read(r)
    \/ \E text \in ValidTexts : Type(text)
    \/ TimedInput_JoinFinished
    \/ TimedInput_JoinTimeout
    \/ TimedInput_Return
    \/ Response_Timeout
    \/ Response_Valid
    \/ ScoreQuestion
    \/ SaveResult_Ok
    \/ SaveResult_SummaryFails
    \/ SaveResult_DetailFails
    \/ SaveResult_ZeroDivision
    \/ Menu_ReadChoice

SpecCounts == InitCounts /\ [][NextCounts]_vars

\* main_menu's loop (line 209): one call of take_quiz after another over the
\* same pool, each with its own requested count, over a pool of at most one
\* question.  The menu's own reads between two calls are left out here.
InitSessions ==
    /\ questions \in { p \in Pools : Len(p) <= 1 }
    /\ sessions = 0
    /\ pc = "menu"
    /\ num_questions = 0
    /\ quiz_qs = <<>>
    /\ i = 0
    /\ score = 0
    /\ answers = <<>>
    /\ prov = <<>>
    /\ choice = Unbound
    /\ user_input = NoLine
    /\ threads = <<>>
    /\ stdin = <<>>
    /\ typed = 0
    /\ result = NoResult
    /\ handed = <<>>
    /\ log = <<>>
    /\ details = <<>>
    /\ requested = NotFixed
    /\ drawn = <<>>
    /\ menu_choice = NoLine

NextSessions ==
    \/ \E n \in RequestedCounts : sessions < MaxSessions /\ TakeQuiz(n)
    \/ TimedInput_Start
    \/ \E r \in 1 .. Len(threads) : Reader_Read(r)
    \/ \E text \in LineTexts : Type(text)
    \/ TimedInput_JoinFinished
    \/ TimedInput_JoinTimeout
    \/ TimedInput_Return
    \/ Response_Timeout
    \/ Response_NotANumber
    \/ Response_OutOfRange
    \/ Response_Valid
    \/ ScoreQuestion
    \/ SaveResult_Ok
    \/ SaveResult_SummaryFails
    \/ SaveResult_DetailFails
    \/ SaveResult_ZeroDivision

SpecSessions == InitSessions /\ [][NextSessions]_vars

\* ================================================================ claims
NumCorrect(recs) == Cardinality({ k \in 1 .. Len(recs) : recs[k].is_correct })

\* timed_input calls that returned None: their reader threads were abandoned
Abandoned == { r \in 1 .. Len(threads) : threads[r].returned /\ threads[r].alive_at_check }

\* C1: every outcome handed to save_result holds as many answer records as
\* its total says.
C1_AnswersMatchTotal ==
    \A k \in 1 .. Len(handed) : Len(handed[k].answers) = handed[k].total

\* C2: in every outcome handed to save_result the score is the number of
\* answer records marked correct.
C2_ScoreCountsCorrect ==
    \A k \in 1 .. Len(handed) : handed[k].score = NumCorrect(handed[k].answers)

\* C3: every answer record appended for a question on which timed_input
\* returned None has selected = NO_ANSWER, is_correct = FALSE and
\* correct = answer_index + 1.
C3_TimeoutRecords ==
    \A k \in 1 .. Len(answers) :
        prov[k].timeout =>
            /\ answers[k].selected = NO_ANSWER
            /\ answers[k].is_correct = FALSE
            /\ answers[k].correct = quiz_qs[prov[k].qi].answer_index + 1

\* C4: no event of the question loop makes take_quiz raise: the only
\* exceptions that leave it come from the sample and from save_result.
C4_NoQuestionLevelFailure ==
    ~(result.status = "raised" /\ result.exc = "UnboundLocalError")

\* C5: over a pool of pairwise distinct questions no question has two answer
\* records in a session.
PoolDistinct ==
    \A a, b \in 1 .. Len(questions) :
        a # b => questions[a].question # questions[b].question

C5_OneRecordPerQuestion ==
    PoolDistinct =>
        \A a, b \in 1 .. Len(answers) :
            a # b => answers[a].question # answers[b].question

\* C6: a response that is not an integer, or an integer outside
\* 1 .. len(options), changes neither the score nor the answers nor the
\* current question, and leads to a new timed_input call for the same question.
InvalidText(text) ==
    \/ IntRaisesValueError(text)
    \/ IntOf(text) < 1
    \/ IntOf(text) > NumOptions

HandlingInvalid == pc = "response" /\ user_input # NoLine /\ InvalidText(user_input.text)

C6_InvalidChangesNothing ==
    /\ [][HandlingInvalid =>
            /\ score' = score
            /\ answers' = answers
            /\ i' = i
            /\ quiz_qs' = quiz_qs
            /\ pc' = "prompt"]_vars
    /\ [][pc = "prompt" =>
            /\ pc' = "join"
            /\ Len(threads') = Len(threads) + 1
            /\ threads'[Len(threads')].qi = i
            /\ ~threads'[Len(threads')].returned
            /\ score' = score /\ answers' = answers /\ i' = i]_vars

\* an invalid response has been handled: the same question is about to be
\* asked again, nothing recorded
C6_Witness ==
    /\ pc = "prompt"
    /\ user_input # NoLine
    /\ InvalidText(user_input.text)
    /\ threads[cur].qi = i
    /\ Len(answers) = i - 1

C8_AbandonedReaderTakesNothingLater ==
    \A r \in Abandoned :
        threads[r].answer # NoLine => threads[r].answer.during <= r

\* C9: the line an abandoned reader thread reads is never returned by any
\* timed_input call and never becomes a selection.
C9_LateValueNeverDelivered ==
    \A r \in Abandoned :
        threads[r].answer # NoLine =>
            /\ user_input.id # threads[r].answer.id
            /\ choice.src # threads[r].answer.id
            /\ \A p \in 1 .. Len(threads) : threads[p].ret.id # threads[r].answer.id
            /\ \A k \in 1 .. Len(prov) : prov[k].line # threads[r].answer.id

\* an abandoned reader has read a line, and a later call has returned since
C9_Witness ==
    \E r \in Abandoned :
        /\ threads[r].answer # NoLine
        /\ r < cur
        /\ threads[cur].returned
        /\ pc = "response"

C11_EmptyPoolStartsNothing ==
    questions = <<>> =>
        /\ threads = <<>>
        /\ handed = <<>>
        /\ log = <<>>
        /\ details = <<>>
        /\ pc \in {"menu", "dispatch"}
        /\ result.status \in {"none", "returned_none"}

\* the call with an empty pool is over and main_menu has read its next choice
C11_Witness ==
    /\ questions = <<>>
    /\ sessions > 0
    /\ result.status = "returned_none"
    /\ pc = "dispatch"

\* the count the documentation gives for the call
Min(a, b) == IF a < b THEN a ELSE b

ExpectedCount ==
    IF requested.is_none THEN Len(questions) ELSE Min(requested.val, Len(questions))

\* C12: for a non-empty pool the total of the outcome is min(requested count,
\* len(pool)), or len(pool) when no count is given, and exactly that many
\* pool positions are drawn, no position twice.
C12_TotalAndSample ==
    /\ \A k \in 1 .. Len(handed) : handed[k].total = ExpectedCount
    /\ (sessions > 0 /\ questions # <<>> /\ ExpectedCount >= 0) =>
          /\ num_questions = ExpectedCount
          /\ Len(drawn) = ExpectedCount
          /\ Len(quiz_qs) = ExpectedCount
          /\ \A k \in 1 .. Len(drawn) :
                /\ drawn[k] \in 1 .. Len(questions)
                /\ quiz_qs[k] = questions[drawn[k]]
          /\ \A a, b \in 1 .. Len(drawn) : a # b => drawn[a] # drawn[b]

\* a session over fewer questions than the pool holds has been handed to
\* save_result
C12_Witness ==
    /\ handed # <<>>
    /\ ~requested.is_none
    /\ requested.val >= 1
    /\ requested.val < Len(questions)

\* the log the documentation describes for a list of saved outcomes: nothing
\* before the first one, then the header row and one data row per outcome
RECURSIVE RowsOf(_)
RowsOf(outs) ==
    IF outs = <<>> THEN <<>>
    ELSE Append(RowsOf(SubSeq(outs, 1, Len(outs) - 1)),
                DataRow(outs[Len(outs)].score, outs[Len(outs)].total))

LogOf(outs) == IF outs = <<>> THEN <<>> ELSE << HeaderRow >> \o RowsOf(outs)

IsPrefix(a, b) == Len(a) <= Len(b) /\ SubSeq(b, 1, Len(a)) = a

\* C13: after any sequence of completed sessions the log is one header row,
\* written first, followed by one data row per completed session in
\* completion order, and no step removes or rewrites a row already there.
C13_LogIsHeaderThenRows ==
    [][ /\ IsPrefix(log, log')
        /\ log' # <<>> => log'[1] = HeaderRow
        /\ \A k \in 2 .. Len(log') : log'[k] # HeaderRow
        /\ ProcessAlive' => log' = LogOf(handed') ]_vars

\* two sessions have completed and both rows are in the log
C13_Witness ==
    /\ ProcessAlive
    /\ Len(handed) = 2
    /\ Len(log) = 3
    /\ pc = "menu"

\* the call of take_quiz is over, by a return or by an exception
SessionOver == sessions > 0 /\ pc = "menu" /\ result.status # "running"

Presented(k) == \E r \in 1 .. Len(threads) : threads[r].qi = k

\* C14: a session in which the operator enters nothing presents every
\* selected question (each timed_input call returning at its deadline) and
\* then ends with its outcome handed to save_result.
C14_SilentSessionPresentsAll ==
    (typed = 0 /\ SessionOver /\ quiz_qs # <<>>) =>
        /\ \A k \in 1 .. Len(quiz_qs) : Presented(k)
        /\ Len(handed) = 1

\* the summary row and the detail record of every outcome handed to
\* save_result are both in place
BothWritten ==
    /\ Len(log) = Len(handed) + 1
    /\ \A k \in 1 .. Len(handed) : log[k + 1].kind = "data"
    /\ Len(details) = Len(handed)

\* C15: when one of the two writes of save_result fails, an exception
\* reaches the caller of save_result and of take_quiz; save_result never
\* reports success while only one of the two writes has happened.
C15_NoSuccessAfterPartialWrite ==
    /\ ReportedSaved => (handed # <<>> /\ BothWritten)
    /\ (handed # <<>> /\ ~BothWritten) =>
          (result.status = "raised" /\ result.exc \in {"OSError", "ZeroDivisionError"})

\* the summary row is written, the detail record is not, and the call raised
C15_Witness ==
    /\ result.exc = "OSError"
    /\ Len(log) = 2
    /\ details = <<>>
    /\ Len(handed) = 1

\* C16: when a write of save_result fails after scoring, the caller of
\* take_quiz still obtains the score and the total of the session.
C16_OutcomeSurvivesFailure ==
    (result.exc = "OSError" /\ handed # <<>>) => CallerObtained(handed[Len(handed)])

\* C17: in every answer record is_correct is true exactly when the recorded
\* selection is an integer equal to the record's correct option; it is never
\* taken from a value entered for another question or a rejected attempt.
C17_IsCorrectFromOwnSelection ==
    \A k \in 1 .. Len(answers) :
        answers[k].is_correct <=>
            (answers[k].selected # NO_ANSWER /\ answers[k].selected = answers[k].correct)

\* C18: a session over a non-empty pool calls save_result exactly once, after
\* the window of every selected question has closed and before take_quiz
\* returns; nothing is saved while the session is in progress.
C18_SavedExactlyOnce ==
    /\ (SessionOver /\ quiz_qs # <<>>) => Len(handed) = 1
    /\ (result.status = "running" /\ pc # "menu") => handed = <<>>
    /\ handed # <<>> => \A k \in 1 .. Len(quiz_qs) : Presented(k) \/ i > k

\* C19: every outcome passed to save_result has total > 0 and
\* 0 <= score <= total, whatever integer count take_quiz was called with.
C19_OutcomeInRange ==
    \A k \in 1 .. Len(handed) :
        /\ handed[k].total > 0
        /\ 0 <= handed[k].score
        /\ handed[k].score <= handed[k].total

\* C20: a line entered after take_quiz has returned to main_menu is never
\* taken by a reader thread that a timed-out question left behind.
C20_MenuLineReachesMenu ==
    \A r \in 1 .. Len(threads) : ~threads[r].answer.at_menu

====
